---------------------------- MODULE Spec2Model ----------------------------
(***************************************************************************)
(* A model of configtoolkit (src/configtoolkit/__main__.py): ConfigValue,  *)
(* not_none_config_value, get_config_value and the config providers.       *)
(*                                                                         *)
(* Python values are tagged records; the tag t is the value's exact        *)
(* runtime type (type(value).__name__).  A dict is its insertion-ordered   *)
(* sequence of <<key, value>> pairs, a list its sequence of elements, an   *)
(* object its sequence of <<attribute name, value>> pairs.                 *)
(***************************************************************************)
EXTENDS Integers, Sequences, FiniteSets, TLC

VARIABLES
    \* get_config_value and its caller
    values,       \* the caller's candidate list object (its current content)
    value_type,   \* the value_type argument the caller uses
    validator,    \* the validator argument the caller uses
    calls,        \* the calls made so far, each with its outcome
    \* a provider, the ConfigValue it produced, and their caller
    provider,     \* the provider object, Nil when none is constructed
    ctor,         \* the constructor call that built the provider
    cv,           \* the ConfigValue object the caller holds, Nil when none
    last,         \* the last operation on the provider or the ConfigValue
    \* the process around the library
    environ,      \* os.environ: its <<name, value>> pairs
    files,        \* the file system: file name -> text, or NoFile
    at_construction  \* what every get returned right after construction

rvars == <<values, value_type, validator, calls>>
pvars == <<provider, ctor, cv, last>>
svars == <<environ, files, at_construction>>

vars == <<rvars, pvars, svars>>

-----------------------------------------------------------------------------
(* Bounds *)

MaxLen == 2      \* longest candidate list the caller builds
MaxCalls == 2    \* calls of get_config_value on the same list object
MaxPath == 2     \* longest path (*keys) passed to a get
MaxArgs == 3     \* longest argument list of an ArgsConfigProvider

-----------------------------------------------------------------------------
(* Python values *)

PyNone == [t |-> "NoneType"]
PyBool(b) == [t |-> "bool", b |-> b]
PyInt(i) == [t |-> "int", i |-> i]
PyStr(s) == [t |-> "str", s |-> s]
PyList(xs) == [t |-> "list", elems |-> xs]
PyDict(kvs) == [t |-> "dict", items |-> kvs]

\* @dataclass class ConfigValue: value, exist
ConfigValue(v, e) == [t |-> "ConfigValue", value |-> v, exist |-> e]

\* bool(value): the truth value Python's "if" and "not" use
Truthy(v) ==
    CASE v.t = "NoneType" -> FALSE
      [] v.t = "bool" -> v.b
      [] v.t = "int" -> v.i # 0
      [] v.t = "str" -> v.s # ""
      [] v.t = "list" -> Len(v.elems) > 0
      [] v.t = "dict" -> Len(v.items) > 0
      [] OTHER -> TRUE

\* isinstance(v, cls) for the builtin classes: bool is a subclass of int
IsInstance(v, cls) == v.t = cls \/ (cls = "int" /\ v.t = "bool")

\* no object: an unbound name, or an attribute that was never assigned
Nil == [t |-> "<nil>"]

\* no operation recorded yet
NoCall == [op |-> "none"]

\* all sequences over S of length at most n
SeqsUpTo(S, n) == UNION { [1..k -> S] : k \in 0..n }

-----------------------------------------------------------------------------
(* Outcomes of a call: a returned value or a raised exception *)

Return(v) == [kind |-> "return", value |-> v]
Raise(e) == [kind |-> "raise", exc |-> e]

-----------------------------------------------------------------------------
(* get_config_value *)

NoType == "None"    \* value_type = None: no type check

\* the validators the caller passes: the default "lambda value: True" and
\* the builtin bool (the value's truth value)
Validators == {"always", "bool"}

CallValidator(vd, v) == IF vd = "always" THEN TRUE ELSE Truthy(v)

\* the check "type(value) != value_type" written as an isinstance test
TypeMismatchIsInstance(v, vt) == ~IsInstance(v, vt)

\* type(value) != value_type
TypeMismatch(v, vt) == v.t # vt

\* the for loop of get_config_value from position i on
RECURSIVE ScanValues(_, _, _, _)
ScanValues(vs, i, vt, vd) ==
    IF i > Len(vs) THEN Raise("ImpossibleToGetValue")
    ELSE IF vs[i].t = "ConfigValue" /\ ~vs[i].exist
         THEN ScanValues(vs, i + 1, vt, vd)
    ELSE LET value == IF vs[i].t = "ConfigValue" THEN vs[i].value ELSE vs[i]
         IN  IF vt # NoType /\ TypeMismatch(value, vt)
                THEN ScanValues(vs, i + 1, vt, vd)
             ELSE IF ~CallValidator(vd, value)
                THEN ScanValues(vs, i + 1, vt, vd)
             ELSE Return(value)

\* get_config_value(values, value_type, validator, **kwargs): the list object
\* after the call and the call's outcome
get_config_value(vs, vt, vd, has_default, default) ==
    LET appended == IF has_default THEN Append(vs, default) ELSE vs
    IN  [values |-> appended, outcome |-> ScanValues(appended, 1, vt, vd)]

\* the candidates and defaults of the model
Candidates ==
    { PyNone, PyBool(TRUE), PyInt(0), PyInt(5),
      ConfigValue(PyNone, FALSE), ConfigValue(PyInt(7), FALSE),
      ConfigValue(PyInt(5), TRUE), ConfigValue(PyBool(TRUE), TRUE) }

Defaults == { PyInt(3), PyBool(FALSE), ConfigValue(PyInt(7), TRUE) }

ValueTypes == { NoType, "int", "bool" }

IdleResolve ==
    /\ values = <<>>
    /\ value_type = NoType
    /\ validator = "always"
    /\ calls = <<>>

IdleProvider ==
    /\ provider = Nil
    /\ ctor = NoCall
    /\ cv = Nil
    /\ last = NoCall

IdleSystem ==
    /\ environ = <<>>
    /\ files = <<>>
    /\ at_construction = <<>>

InitResolve ==
    /\ values \in SeqsUpTo(Candidates, MaxLen)
    /\ value_type \in ValueTypes
    /\ validator \in Validators
    /\ calls = <<>>
    /\ IdleProvider
    /\ IdleSystem

\* one call get_config_value(values, value_type, validator[, default=d]) on
\* the caller's list object
GetConfigValue(has_default, default) ==
    /\ Len(calls) < MaxCalls
    /\ LET r == get_config_value(values, value_type, validator,
                                 has_default, default)
       IN  /\ values' = r.values
           /\ calls' = Append(calls, [passed |-> values,
                                      has_default |-> has_default,
                                      default |-> default,
                                      outcome |-> r.outcome])
    /\ UNCHANGED <<value_type, validator, pvars, svars>>

GetConfigValueNoDefault == GetConfigValue(FALSE, PyNone)

GetConfigValueDefault == \E d \in Defaults : GetConfigValue(TRUE, d)

NextResolve ==
    \/ GetConfigValueNoDefault
    \/ GetConfigValueDefault

SpecResolve == InitResolve /\ [][NextResolve]_vars

-----------------------------------------------------------------------------
(* Claims about get_config_value *)

\* the list a call scans: the list as passed, with the default placed last
Effective(c) == IF c.has_default THEN Append(c.passed, c.default) ELSE c.passed

Unwrapped(x) == IF x.t = "ConfigValue" THEN x.value ELSE x

\* an element is acceptable: an existing ConfigValue or a raw value, of
\* exactly the required type when one is required, passing the validator
Acceptable(x, vt, vd) ==
    /\ x.t = "ConfigValue" => x.exist
    /\ vt # NoType => Unwrapped(x).t = vt
    /\ IF vd = "always" THEN TRUE ELSE Truthy(Unwrapped(x))

AcceptablePositions(c) ==
    { i \in 1..Len(Effective(c)) :
        Acceptable(Effective(c)[i], value_type, validator) }

\* C1: every call returns the unwrapped first acceptable element of the list
\* with the default placed last, and raises ImpossibleToGetValue exactly when
\* no element is acceptable; the elements after the first acceptable one do
\* not take part in the result.
C1_FirstAcceptable ==
    \A k \in 1..Len(calls) :
        LET c == calls[k]
            acc == AcceptablePositions(c)
        IN  IF acc = {}
            THEN c.outcome = Raise("ImpossibleToGetValue")
            ELSE LET m == CHOOSE i \in acc : \A j \in acc : i <= j
                 IN  c.outcome = Return(Unwrapped(Effective(c)[m]))

\* a call with value_type int that skipped a boolean and an absent
\* ConfigValue and returned the default
C1_Witness ==
    /\ value_type = "int"
    /\ \E k \in 1..Len(calls) :
          /\ Len(calls[k].passed) = 2
          /\ calls[k].passed[1] = PyBool(TRUE)
          /\ calls[k].passed[2] = ConfigValue(PyInt(7), FALSE)
          /\ calls[k].has_default
          /\ calls[k].outcome = Return(PyInt(3))

\* C2: get_config_value does not retain the candidate list: of two
\* successive calls on the same list object with different defaults, the
\* second returns what a single call on the original candidates with only
\* the second default returns.
C2_NotRetained ==
    \A k \in 1..(Len(calls) - 1) :
        (/\ calls[k].has_default
         /\ calls[k + 1].has_default
         /\ calls[k].default # calls[k + 1].default)
        => calls[k + 1].outcome =
              get_config_value(calls[k].passed, value_type, validator,
                               TRUE, calls[k + 1].default).outcome

-----------------------------------------------------------------------------
(* Indexing, membership and attribute access of Python values *)

\* the integer an int or a bool stands for
IntOf(v) == IF v.t = "bool" THEN (IF v.b THEN 1 ELSE 0) ELSE v.i

IsInt(v) == v.t \in {"int", "bool"}

\* a == b for keys and elements: numbers compare by value, True == 1
PyEq(a, b) == IF IsInt(a) /\ IsInt(b) THEN IntOf(a) = IntOf(b) ELSE a = b

\* hash(k) succeeds: lists and dicts are unhashable
Hashable(k) == k.t \notin {"list", "dict"}

\* os.environ: the mapping object whose items are the live environment
OsEnviron == [t |-> "os._Environ"]

\* the positions of the dict items whose key equals k
KeyPositions(kvs, k) == { i \in 1..Len(kvs) : PyEq(kvs[i][1], k) }

\* the characters of a string; the strings inside the nested structures of
\* the model have at most one character
StrChars(s) == IF s = "" THEN <<>> ELSE <<PyStr(s)>>

\* xs[k] for a sequence xs: an integer index, negative ones counting from
\* the end
SeqGetItem(xs, k) ==
    IF ~IsInt(k) THEN Raise("TypeError")
    ELSE LET i == IntOf(k)
         IN  IF 0 <= i /\ i < Len(xs) THEN Return(xs[i + 1])
             ELSE IF i < 0 /\ -i <= Len(xs) THEN Return(xs[Len(xs) + i + 1])
             ELSE Raise("IndexError")

\* value[k]
PyGetItem(value, k) ==
    CASE value.t = "dict" ->
            IF ~Hashable(k) THEN Raise("TypeError")
            ELSE IF KeyPositions(value.items, k) = {} THEN Raise("KeyError")
            ELSE LET i == CHOOSE i \in KeyPositions(value.items, k) : TRUE
                 IN  Return(value.items[i][2])
      [] value.t = "list" -> SeqGetItem(value.elems, k)
      [] value.t = "str" -> SeqGetItem(StrChars(value.s), k)
      [] value.t = "os._Environ" ->
            IF k.t # "str" THEN Raise("TypeError")
            ELSE IF KeyPositions(environ, k) = {} THEN Raise("KeyError")
            ELSE LET i == CHOOSE i \in KeyPositions(environ, k) : TRUE
                 IN  Return(environ[i][2])
      [] OTHER -> Raise("TypeError")

-----------------------------------------------------------------------------
(* ConfigValue.apply_to_value and not_none_config_value *)

\* the functions the caller applies: the builtin int, "lambda v: None" and
\* sys.exit, which raises SystemExit
Functions == {"int", "none", "sys.exit"}

\* int(s) for a string of at most one character
IntOfStr(s) ==
    CASE s = "0" -> Return(PyInt(0))
      [] s = "1" -> Return(PyInt(1))
      [] s = "5" -> Return(PyInt(5))
      [] OTHER -> Raise("ValueError")

\* function(value)
CallFunction(f, v) ==
    CASE f = "none" -> Return(PyNone)
      [] f = "sys.exit" -> Raise("SystemExit")
      [] f = "int" ->
            CASE IsInt(v) -> Return(PyInt(IntOf(v)))
              [] v.t = "str" -> IntOfStr(v.s)
              [] OTHER -> Raise("TypeError")

\* issubclass(type(e), Exception): SystemExit derives from BaseException only
IsException(e) == e # "SystemExit"

\* apply_to_value with the test of ignore_exceptions inverted
apply_to_value_inverted(self, function, ignore_exceptions) ==
    IF self.exist
    THEN LET r == CallFunction(function, self.value)
         IN  IF r.kind = "return"
             THEN [self |-> ConfigValue(r.value, self.exist),
                   called |-> TRUE, raised |-> "none"]
             ELSE IF IsException(r.exc) /\ ~ignore_exceptions
                  THEN [self |-> self, called |-> TRUE, raised |-> "none"]
                  ELSE [self |-> self, called |-> TRUE, raised |-> r.exc]
    ELSE [self |-> self, called |-> FALSE, raised |-> "none"]

\* ConfigValue.apply_to_value: the object after the call, whether function
\* was called, and the exception that reached the caller ("none": returned)
apply_to_value(self, function, ignore_exceptions) ==
    IF self.exist
    THEN LET r == CallFunction(function, self.value)
         IN  IF r.kind = "return"
             THEN [self |-> ConfigValue(r.value, self.exist),
                   called |-> TRUE, raised |-> "none"]
             ELSE IF IsException(r.exc) /\ ignore_exceptions
                  THEN [self |-> self, called |-> TRUE, raised |-> "none"]
                  ELSE [self |-> self, called |-> TRUE, raised |-> r.exc]
    ELSE [self |-> self, called |-> FALSE, raised |-> "none"]

\* not_none_config_value testing "if not value" instead of "is None"
not_none_config_value_falsy(value) ==
    IF ~Truthy(value) THEN ConfigValue(PyNone, FALSE)
    ELSE ConfigValue(value, TRUE)

\* not_none_config_value
not_none_config_value(value) ==
    IF value = PyNone THEN ConfigValue(PyNone, FALSE)
    ELSE ConfigValue(value, TRUE)

-----------------------------------------------------------------------------
(* DictConfigProvider *)

\* a provider object: the attributes __init__ assigned; Nil: not assigned
Provider(cls, data, pyobject, args) ==
    [cls |-> cls, data |-> data, pyobject |-> pyobject, args |-> args]

\* DictConfigProvider.__init__
DictConfigProvider(data) == Provider("DictConfigProvider", data, Nil, Nil)

\* the loop "for arg in keys: value = value[arg]" from position i on
RECURSIVE IndexKeys(_, _, _)
IndexKeys(value, keys, i) ==
    IF i > Len(keys) THEN Return(value)
    ELSE LET r == PyGetItem(value, keys[i])
         IN  IF r.kind = "raise" THEN r
             ELSE IndexKeys(r.value, keys, i + 1)

\* DictConfigProvider.get catching only KeyError and IndexError
DictGetLookupErrors(self, keys) ==
    IF self.data = Nil THEN Raise("AttributeError")
    ELSE LET r == IndexKeys(self.data, keys, 1)
         IN  IF r.kind = "return" THEN Return(ConfigValue(r.value, TRUE))
             ELSE IF r.exc \in {"KeyError", "IndexError"}
                  THEN Return(ConfigValue(PyNone, FALSE))
                  ELSE r

\* DictConfigProvider.get: self.data raises AttributeError when __init__
\* never assigned it; the bare except turns every exception into absence
DictGet(self, keys) ==
    IF self.data = Nil THEN Return(ConfigValue(PyNone, FALSE))
    ELSE LET r == IndexKeys(self.data, keys, 1)
         IN  IF r.kind = "return" THEN Return(ConfigValue(r.value, TRUE))
             ELSE Return(ConfigValue(PyNone, FALSE))

\* an object with named attributes, and a module
PyObject(attrs) == [t |-> "object", attrs |-> attrs]
PyModule(attrs) == [t |-> "module", attrs |-> attrs]

\* a bound method of a builtin type
BuiltinMethod(name) == [t |-> "builtin_function_or_method", name |-> name]

\* hasattr(value, '__getitem__')
HasGetItem(value) == value.t \in {"dict", "list", "str", "os._Environ"}

\* arg in value, for a value that has __getitem__: key membership for a
\* dict, element membership for a list, substring test for a str
PyContains(value, arg) ==
    CASE value.t = "dict" ->
            IF ~Hashable(arg) THEN Raise("TypeError")
            ELSE Return(KeyPositions(value.items, arg) # {})
      [] value.t = "list" ->
            Return(\E i \in 1..Len(value.elems) : PyEq(value.elems[i], arg))
      [] value.t = "str" ->
            IF arg.t # "str" THEN Raise("TypeError")
            ELSE Return(arg.s = "" \/ arg.s = value.s)
      [] value.t = "os._Environ" ->
            IF arg.t # "str" THEN Raise("TypeError")
            ELSE Return(KeyPositions(environ, arg) # {})

\* getattr(value, name): the attributes of an object or a module, and
\* dict.keys; no other value of the model has an attribute named by one of
\* the model's segments
PyGetAttr(value, name) ==
    IF name.t # "str" THEN Raise("TypeError")
    ELSE CASE value.t \in {"object", "module"} ->
                IF KeyPositions(value.attrs, name) = {}
                THEN Raise("AttributeError")
                ELSE LET i == CHOOSE i \in KeyPositions(value.attrs, name) : TRUE
                     IN  Return(value.attrs[i][2])
           [] value.t = "dict" /\ name = PyStr("keys") ->
                Return(BuiltinMethod("dict.keys"))
           [] OTHER -> Raise("AttributeError")

\* the loop of PyObjectConfigProvider.get from position i on
RECURSIVE ResolveArgs(_, _, _)
ResolveArgs(value, args, i) ==
    IF i > Len(args) THEN Return(value)
    ELSE LET arg == args[i]
             c == IF HasGetItem(value) THEN PyContains(value, arg)
                  ELSE Return(FALSE)
         IN  IF c.kind = "raise" THEN c
             ELSE LET r == IF c.value THEN PyGetItem(value, arg)
                           ELSE PyGetAttr(value, arg)
                  IN  IF r.kind = "raise" THEN r
                      ELSE ResolveArgs(r.value, args, i + 1)

\* PyObjectConfigProvider.get: self.pyobject raises AttributeError when
\* __init__ never assigned it; the bare except turns every exception into
\* absence
PyObjectGet(self, args) ==
    IF self.pyobject = Nil THEN Return(ConfigValue(PyNone, FALSE))
    ELSE LET r == ResolveArgs(self.pyobject, args, 1)
         IN  IF r.kind = "return" THEN Return(ConfigValue(r.value, TRUE))
             ELSE Return(ConfigValue(PyNone, FALSE))

\* provider.get(*keys): the get of the provider's class
CallGet(self, keys) ==
    IF self.cls \in {"PyObjectConfigProvider", "PyModuleConfigProvider"}
    THEN PyObjectGet(self, keys)
    ELSE DictGet(self, keys)

\* the nested structures a dictionary provider is built over
Roots ==
    { PyDict(<< <<PyStr("a"), PyDict(<< <<PyStr("b"), PyInt(5)>> >>)>> >>),
      PyDict(<< <<PyStr("a"), PyNone>>,
                <<PyStr("b"), PyList(<<PyInt(0), PyStr("1")>>)>> >>),
      PyList(<< PyDict(<< <<PyStr("a"), PyStr("x")>> >>), PyInt(0) >>),
      PyDict(<< <<PyInt(0), PyStr("1")>>, <<PyStr("b"), PyInt(0)>> >>),
      PyDict(<<>>) }

\* the path segments of the model
Segments == { PyStr("a"), PyStr("b"), PyInt(0), PyInt(1), PyInt(-1) }

Paths == SeqsUpTo(Segments, MaxPath)

\* the raw values the caller wraps
RawValues == { PyNone, PyInt(0), PyStr("1") }

InitValue ==
    /\ \E d \in Roots :
          /\ provider = DictConfigProvider(d)
          /\ ctor = [op |-> "DictConfigProvider", data |-> d, raised |-> "none"]
    /\ cv = Nil
    /\ last = NoCall
    /\ IdleResolve
    /\ IdleSystem

\* cv = provider.get(*keys)
Get(keys) ==
    /\ provider # Nil
    /\ LET r == CallGet(provider, keys)
       IN  /\ cv' = IF r.kind = "return" THEN r.value ELSE cv
           /\ last' = [op |-> "get", keys |-> keys,
                       raised |-> IF r.kind = "raise" THEN r.exc ELSE "none"]
    /\ UNCHANGED <<provider, ctor, rvars, svars>>

DictProviderGet == \E keys \in Paths : Get(keys)

\* cv = not_none_config_value(value)
NotNoneConfigValue ==
    \E value \in RawValues :
        /\ cv' = not_none_config_value(value)
        /\ last' = [op |-> "not_none_config_value", value |-> value,
                    raised |-> "none"]
        /\ UNCHANGED <<provider, ctor, rvars, svars>>

\* cv.apply_to_value(function, ignore_exceptions)
ApplyToValue ==
    \E function \in Functions, ignore_exceptions \in BOOLEAN :
        /\ cv # Nil
        /\ LET r == apply_to_value(cv, function, ignore_exceptions)
           IN  /\ cv' = r.self
               /\ last' = [op |-> "apply_to_value", pre |-> cv,
                           function |-> function,
                           ignore_exceptions |-> ignore_exceptions,
                           called |-> r.called, raised |-> r.raised]
        /\ UNCHANGED <<provider, ctor, rvars, svars>>

NextValue ==
    \/ DictProviderGet
    \/ NotNoneConfigValue
    \/ ApplyToValue

SpecValue == InitValue /\ [][NextValue]_vars

-----------------------------------------------------------------------------
(* Claims about DictConfigProvider.get, not_none_config_value and
   ConfigValue.apply_to_value *)

\* the value reached after each number of segments of keys, starting from
\* root: a returned value, or the exception of the first failing segment
Reached(root, keys) ==
    LET at[k \in 0..Len(keys)] ==
            IF k = 0 THEN Return(root)
            ELSE IF at[k - 1].kind = "raise" THEN at[k - 1]
            ELSE PyGetItem(at[k - 1].value, keys[k])
    IN  at

SpecExampleRoot ==
    PyDict(<< <<PyStr("a"), PyDict(<< <<PyStr("b"), PyInt(5)>> >>)>> >>)

\* C3: the get of a dictionary provider applies the segments left to right
\* and returns ConfigValue(final value, True) if and only if every segment
\* indexes the current value; if a segment fails it returns
\* ConfigValue(None, False); it never raises; the empty path returns the
\* root container with exist = True.
C3_DictGet ==
    last.op = "get" =>
        LET n == Len(last.keys)
            at == Reached(provider.data, last.keys)
        IN  /\ last.raised = "none"
            /\ cv.exist <=> \A k \in 0..n : at[k].kind = "return"
            /\ cv.exist => cv = ConfigValue(at[n].value, TRUE)
            /\ ~cv.exist => cv = ConfigValue(PyNone, FALSE)
            /\ n = 0 => cv = ConfigValue(provider.data, TRUE)
            /\ provider.data = SpecExampleRoot =>
                  /\ last.keys = <<PyStr("a"), PyStr("b")>>
                        => cv = ConfigValue(PyInt(5), TRUE)
                  /\ last.keys = <<PyStr("a"), PyStr("a")>>
                        => cv = ConfigValue(PyNone, FALSE)
                  /\ last.keys = <<PyStr("a"), PyStr("b"), PyInt(0)>>
                        => cv = ConfigValue(PyNone, FALSE)

\* a get whose second segment indexes an integer, a non-container
C3_Witness ==
    /\ last.op = "get"
    /\ provider.data = PyDict(<< <<PyInt(0), PyStr("1")>>,
                                 <<PyStr("b"), PyInt(0)>> >>)
    /\ last.keys = <<PyStr("b"), PyInt(0)>>
    /\ cv = ConfigValue(PyNone, FALSE)

\* C6: for every ConfigValue v with exist = True, however
\* produced, not_none_config_value(v.value).exist is True; and
\* not_none_config_value(None).exist is False.
C6_WrapOfPresent ==
    /\ (cv # Nil /\ cv.exist) => not_none_config_value(cv.value).exist
    /\ ~not_none_config_value(PyNone).exist

\* C6, restricted to values other than None: for every ConfigValue v with exist = True,
\* not_none_config_value(v.value).exist is True exactly when v.value is not
\* None; a ConfigValue produced by not_none_config_value with exist = True
\* has a value other than None; not_none_config_value(None).exist is False.
C6_WrapOfPresentNotNone ==
    /\ (cv # Nil /\ cv.exist) =>
          (not_none_config_value(cv.value).exist <=> cv.value # PyNone)
    /\ (last.op = "not_none_config_value" /\ cv.exist) => cv.value # PyNone
    /\ (last.op = "not_none_config_value" /\ cv.exist) =>
          not_none_config_value(cv.value) = cv
    /\ ~not_none_config_value(PyNone).exist

\* a lookup produced a present ConfigValue holding 0
C6_Witness ==
    /\ last.op = "get"
    /\ cv = ConfigValue(PyInt(0), TRUE)

-----------------------------------------------------------------------------
(* ArgsConfigProvider *)

\* ArgsConfigProvider.__init__
ArgsConfigProvider(args) == Provider("ArgsConfigProvider", Nil, Nil, args)

\* get_value_for_key scanning the positions from the last to the first
RECURSIVE ScanArgsFromRight(_, _, _)
ScanArgsFromRight(args, key, i) ==
    IF i < 1 THEN ConfigValue(PyNone, FALSE)
    ELSE IF args[i] = key
         THEN IF i < Len(args) THEN ConfigValue(args[i + 1], TRUE)
              ELSE ScanArgsFromRight(args, key, i - 1)
    ELSE ScanArgsFromRight(args, key, i - 1)

get_value_for_key_from_right(self, key) ==
    ScanArgsFromRight(self.args, key, Len(self.args))

\* the loop of get_value_for_key from position i on (positions from 1)
RECURSIVE ScanArgs(_, _, _)
ScanArgs(args, key, i) ==
    IF i > Len(args) THEN ConfigValue(PyNone, FALSE)
    ELSE IF args[i] = key
         THEN IF i < Len(args) THEN ConfigValue(args[i + 1], TRUE)
              ELSE ConfigValue(PyNone, FALSE)
    ELSE ScanArgs(args, key, i + 1)

\* ArgsConfigProvider.get_value_for_key
get_value_for_key(self, key) == ScanArgs(self.args, key, 1)

\* "for i in range(len(self.args)): if self.args[i] == key" finds a match
KeyInArgs(self, key) == \E i \in 1..Len(self.args) : self.args[i] = key

\* ArgsConfigProvider.if_key_contains
if_key_contains(self, key) ==
    IF KeyInArgs(self, key) THEN ConfigValue(PyBool(TRUE), TRUE)
    ELSE ConfigValue(PyNone, FALSE)

\* ArgsConfigProvider.if_not_key_contains
if_not_key_contains(self, key) ==
    IF KeyInArgs(self, key) THEN ConfigValue(PyNone, FALSE)
    ELSE ConfigValue(PyBool(FALSE), TRUE)

\* ArgsConfigProvider.is_key_contains
is_key_contains(self, key) ==
    IF KeyInArgs(self, key) THEN ConfigValue(PyBool(TRUE), TRUE)
    ELSE ConfigValue(PyBool(FALSE), TRUE)

\* the tokens of the model's argument lists and the keys looked for
Tokens == { PyStr("--port"), PyStr("8080"), PyStr("x") }

ArgKeys == { PyStr("--port"), PyStr("x"), PyStr("-v") }

InitArgs ==
    /\ \E args \in SeqsUpTo(Tokens, MaxArgs) :
          /\ provider = ArgsConfigProvider(args)
          /\ ctor = [op |-> "ArgsConfigProvider", args |-> args,
                     raised |-> "none"]
    /\ cv = Nil
    /\ last = NoCall
    /\ IdleResolve
    /\ IdleSystem

\* cv = provider.get_value_for_key(key)
GetValueForKey ==
    \E key \in ArgKeys :
        /\ cv' = get_value_for_key(provider, key)
        /\ last' = [op |-> "get_value_for_key", key |-> key, raised |-> "none"]
        /\ UNCHANGED <<provider, ctor, rvars, svars>>

\* cv = provider.if_key_contains(key)
IfKeyContains ==
    \E key \in ArgKeys :
        /\ cv' = if_key_contains(provider, key)
        /\ last' = [op |-> "if_key_contains", key |-> key, raised |-> "none"]
        /\ UNCHANGED <<provider, ctor, rvars, svars>>

\* cv = provider.if_not_key_contains(key)
IfNotKeyContains ==
    \E key \in ArgKeys :
        /\ cv' = if_not_key_contains(provider, key)
        /\ last' = [op |-> "if_not_key_contains", key |-> key,
                    raised |-> "none"]
        /\ UNCHANGED <<provider, ctor, rvars, svars>>

\* cv = provider.is_key_contains(key)
IsKeyContains ==
    \E key \in ArgKeys :
        /\ cv' = is_key_contains(provider, key)
        /\ last' = [op |-> "is_key_contains", key |-> key, raised |-> "none"]
        /\ UNCHANGED <<provider, ctor, rvars, svars>>

NextArgs ==
    \/ GetValueForKey
    \/ IfKeyContains
    \/ IfNotKeyContains
    \/ IsKeyContains

SpecArgs == InitArgs /\ [][NextArgs]_vars

\* the positions at which key occurs in the token list
Occurrences(args, key) == { i \in 1..Len(args) : args[i] = key }

\* C8: get_value_for_key(key) returns ConfigValue(tokens[i+1], True) where i
\* is the leftmost position at which key occurs, provided i is not the last
\* position; it returns ConfigValue(None, False) when key does not occur or
\* occurs only as the last token; the token list is left unchanged.
C8_GetValueForKey ==
    last.op = "get_value_for_key" =>
        LET args == ctor.args
            occ == Occurrences(args, last.key)
        IN  /\ provider.args = args
            /\ IF occ = {} \/ occ = {Len(args)}
               THEN cv = ConfigValue(PyNone, FALSE)
               ELSE LET i == CHOOSE i \in occ : \A j \in occ : i <= j
                    IN  cv = ConfigValue(args[i + 1], TRUE)
            /\ args = <<PyStr("--port"), PyStr("8080")>>
                  /\ last.key = PyStr("--port")
                  => cv = ConfigValue(PyStr("8080"), TRUE)
            /\ args = <<PyStr("x"), PyStr("--port")>>
                  /\ last.key = PyStr("--port")
                  => cv = ConfigValue(PyNone, FALSE)

\* the key occurs twice, the second time as the last token, and the value
\* after its leftmost occurrence is returned
C8_Witness ==
    /\ last.op = "get_value_for_key"
    /\ provider.args = <<PyStr("--port"), PyStr("8080"), PyStr("--port")>>
    /\ last.key = PyStr("--port")
    /\ cv = ConfigValue(PyStr("8080"), TRUE)

-----------------------------------------------------------------------------
(* EnvironConfigProvider and the process environment *)

\* dict(mapping): a new dict with the items the mapping has now
DictCopy(mapping) ==
    IF mapping = OsEnviron THEN PyDict(environ) ELSE PyDict(mapping.items)

\* EnvironConfigProvider.__init__ keeping os.environ itself
EnvironConfigProviderLive ==
    Provider("EnvironConfigProvider", OsEnviron, Nil, Nil)

\* EnvironConfigProvider.__init__: super().__init__(dict(os.environ))
EnvironConfigProvider ==
    Provider("EnvironConfigProvider", DictCopy(OsEnviron), Nil, Nil)

EnvNames == { PyStr("A"), PyStr("B") }

EnvValues == { PyStr("1"), PyStr("x") }

EnvSegments == EnvNames \cup { PyInt(0) }

EnvPaths == SeqsUpTo(EnvSegments, MaxPath)

\* os.environ[name] = value: an existing name keeps its position
SetItem(kvs, name, value) ==
    IF KeyPositions(kvs, name) = {} THEN Append(kvs, <<name, value>>)
    ELSE [i \in 1..Len(kvs) |->
            IF kvs[i][1] = name THEN <<name, value>> ELSE kvs[i]]

\* del os.environ[name]
DelItem(kvs, name) == SelectSeq(kvs, LAMBDA kv : kv[1] # name)

InitEnviron ==
    /\ environ \in { <<>>, << <<PyStr("A"), PyStr("1")>> >> }
    /\ files = <<>>
    /\ at_construction = <<>>
    /\ IdleProvider
    /\ IdleResolve

\* provider = EnvironConfigProvider()
NewEnvironConfigProvider ==
    /\ provider = Nil
    /\ provider' = EnvironConfigProvider
    /\ ctor' = [op |-> "EnvironConfigProvider", raised |-> "none"]
    /\ at_construction' =
          [keys \in EnvPaths |-> DictGet(EnvironConfigProvider, keys).value]
    /\ UNCHANGED <<cv, last, environ, files, rvars>>

\* os.environ[name] = value, setting or overwriting a variable
SetEnv ==
    \E name \in EnvNames, value \in EnvValues :
        /\ environ' = SetItem(environ, name, value)
        /\ environ' # environ
        /\ UNCHANGED <<pvars, files, at_construction, rvars>>

\* del os.environ[name]
DelEnv ==
    \E name \in EnvNames :
        /\ KeyPositions(environ, name) # {}
        /\ environ' = DelItem(environ, name)
        /\ UNCHANGED <<pvars, files, at_construction, rvars>>

\* cv = provider.get(*keys)
EnvironProviderGet == \E keys \in EnvPaths : Get(keys)

NextEnviron ==
    \/ NewEnvironConfigProvider
    \/ SetEnv
    \/ DelEnv
    \/ EnvironProviderGet

SpecEnviron == InitEnviron /\ [][NextEnviron]_vars

\* C9: after an EnvironConfigProvider is constructed, later changes to the
\* process environment leave every get result of the provider equal to what
\* it was immediately after construction.
C9_EnvironSnapshot ==
    provider # Nil =>
        /\ \A keys \in EnvPaths :
              DictGet(provider, keys) = Return(at_construction[keys])
        /\ last.op = "get" =>
              /\ last.raised = "none"
              /\ cv = at_construction[last.keys]

\* a variable that was unset at construction was set afterwards, and a get
\* of it still returns absence
C9_Witness ==
    /\ provider # Nil
    /\ last.op = "get"
    /\ last.keys = <<PyStr("B")>>
    /\ KeyPositions(environ, PyStr("B")) # {}
    /\ KeyPositions(environ, PyStr("A")) = {}
    /\ at_construction[<<PyStr("A"), PyInt(0)>>] = ConfigValue(PyStr("1"), TRUE)
    /\ cv = ConfigValue(PyNone, FALSE)

-----------------------------------------------------------------------------
(* PyObjectConfigProvider *)

\* the object under construction, before __init__ assigned anything
NewObject(cls) == Provider(cls, Nil, Nil, Nil)

\* DictConfigProvider.__init__ on an object of a subclass
DictInit(self, data) == [self EXCEPT !.data = data]

\* PyObjectConfigProvider.__init__
PyObjectInit(self, pyobject) ==
    [DictInit(self, PyDict(<<>>)) EXCEPT !.pyobject = pyobject]

PyObjectConfigProvider(pyobject) ==
    PyObjectInit(NewObject("PyObjectConfigProvider"), pyobject)

\* the structured values an object provider is built over
ObjectRoots ==
    { PyObject(<< <<PyStr("a"), PyInt(1)>>,
                  <<PyStr("b"), PyObject(<< <<PyStr("a"), PyInt(5)>> >>)>> >>),
      PyObject(<< <<PyStr("a"), PyDict(<< <<PyStr("b"), PyInt(5)>> >>)>> >>),
      PyDict(<< <<PyStr("a"), PyInt(1)>>, <<PyStr("keys"), PyInt(5)>> >>),
      PyDict(<< <<PyStr("a"), PyList(<<PyInt(5), PyInt(7)>>)>> >>),
      PyList(<< PyInt(5), PyInt(7) >>),
      PyList(<< PyInt(1), PyInt(0) >>) }

ObjectSegments ==
    { PyStr("a"), PyStr("b"), PyStr("keys"), PyInt(0), PyInt(1) }

ObjectPaths == SeqsUpTo(ObjectSegments, MaxPath)

InitPyObject ==
    /\ \E o \in ObjectRoots :
          /\ provider = PyObjectConfigProvider(o)
          /\ ctor = [op |-> "PyObjectConfigProvider", pyobject |-> o,
                     raised |-> "none"]
    /\ cv = Nil
    /\ last = NoCall
    /\ IdleResolve
    /\ IdleSystem

\* cv = provider.get(*args)
PyObjectProviderGet == \E keys \in ObjectPaths : Get(keys)

NextPyObject == PyObjectProviderGet

SpecPyObject == InitPyObject /\ [][NextPyObject]_vars

\* one segment as C10 describes it: the mapped value when the current value
\* is a mapping that has the segment as a key; the element when it is a
\* sequence and the segment is a valid index; otherwise the attribute
StepIndexThenAttribute(value, seg) ==
    IF value.t = "dict" /\ Hashable(seg) /\ KeyPositions(value.items, seg) # {}
    THEN PyGetItem(value, seg)
    ELSE IF value.t = "list" /\ SeqGetItem(value.elems, seg).kind = "return"
    THEN SeqGetItem(value.elems, seg)
    ELSE PyGetAttr(value, seg)

ReachedIndexThenAttribute(root, keys) ==
    LET at[k \in 0..Len(keys)] ==
            IF k = 0 THEN Return(root)
            ELSE IF at[k - 1].kind = "raise" THEN at[k - 1]
            ELSE StepIndexThenAttribute(at[k - 1].value, keys[k])
    IN  at[Len(keys)]

\* C10: the object provider resolves each segment by container indexing
\* first (a key of a mapping, a valid index of a sequence) and attribute
\* access second, and get returns exist = False only when neither applies.
C10_IndexThenAttribute ==
    last.op = "get" =>
        LET r == ReachedIndexThenAttribute(provider.pyobject, last.keys)
        IN  cv = IF r.kind = "return" THEN ConfigValue(r.value, TRUE)
                 ELSE ConfigValue(PyNone, FALSE)

-----------------------------------------------------------------------------
(* The JSON, YAML, TOML and module providers *)

\* the outcome of a constructor: the object, or the exception that left the
\* caller without one
Done(self) == [self |-> self, raised |-> "none"]
Failed(e) == [self |-> Nil, raised |-> e]

\* the texts of the model
Texts == { "{}", "{\"a\": 1}", "null", "[a]", "", "{" }

JsonObjectA == PyDict(<< <<PyStr("a"), PyInt(1)>> >>)

\* json.loads(text)
JsonLoads(text) ==
    CASE text = "{}" -> Return(PyDict(<<>>))
      [] text = "{\"a\": 1}" -> Return(JsonObjectA)
      [] text = "null" -> Return(PyNone)
      [] OTHER -> Raise("JSONDecodeError")

\* yaml.full_load(text): the empty document loads as None
YamlFullLoad(text) ==
    CASE text = "{}" -> Return(PyDict(<<>>))
      [] text = "{\"a\": 1}" -> Return(JsonObjectA)
      [] text = "null" -> Return(PyNone)
      [] text = "[a]" -> Return(PyList(<<PyStr("a")>>))
      [] text = "" -> Return(PyNone)
      [] OTHER -> Raise("YAMLError")

\* toml.loads(text)
TomlLoads(text) ==
    CASE text = "" -> Return(PyDict(<<>>))
      [] text = "[a]" -> Return(PyDict(<< <<PyStr("a"), PyDict(<<>>)>> >>))
      [] OTHER -> Raise("TomlDecodeError")

FileNames == { "local_config", "no_such_file" }

\* open(file_name, 'r') followed by file.read()
OpenAndRead(file_name) ==
    IF file_name \in DOMAIN files THEN Return(files[file_name])
    ELSE Raise("FileNotFoundError")

ModuleNames == { "local_config", "no_such_module" }

LocalConfigModule ==
    PyModule(<< <<PyStr("a"), PyInt(1)>>,
                <<PyStr("b"), PyDict(<< <<PyStr("a"), PyInt(5)>> >>)>> >>)

\* importlib.import_module(module_name)
ImportModule(module_name) ==
    IF module_name = "local_config" THEN Return(LocalConfigModule)
    ELSE Raise("ModuleNotFoundError")

\* PyModuleConfigProvider.__init__
PyModuleInit(self, module_name, ignore_import_errors) ==
    LET m == ImportModule(module_name)
    IN  IF m.kind = "return" THEN Done(PyObjectInit(self, m.value))
        ELSE IF ~ignore_import_errors THEN Failed(m.exc)
        ELSE Done(self)

\* JSONConfigProvider.__init__
JSONInit(self, json_str, ignore_decode_error) ==
    LET s1 == DictInit(self, PyDict(<<>>))
        r == JsonLoads(json_str)
    IN  IF r.kind = "return" THEN Done([s1 EXCEPT !.data = r.value])
        ELSE IF ~ignore_decode_error THEN Failed(r.exc)
        ELSE Done(s1)

\* JSONFileConfigProvider.__init__: json.load(file, ignore_decode_error=...)
\* hands the keyword to JSONDecoder.__init__, which raises TypeError
JSONFileInit(self, file_name, ignore_decode_error, ignore_file_reading_error) ==
    LET f == OpenAndRead(file_name)
    IN  IF f.kind = "return" THEN Failed("TypeError")
        ELSE LET r == JSONInit(self, "{}", FALSE)
             IN  IF r.raised # "none" THEN r
                 ELSE IF ~ignore_file_reading_error THEN Failed(f.exc)
                 ELSE r

\* YAMLConfigProvider.__init__
YAMLInit(self, yaml_str) ==
    LET r == YamlFullLoad(yaml_str)
    IN  IF r.kind = "return" THEN Done(DictInit(self, r.value))
        ELSE Failed(r.exc)

\* YAMLFileConfigProvider.__init__
YAMLFileInit(self, file_name, ignore_file_reading_error) ==
    LET f == OpenAndRead(file_name)
    IN  IF f.kind = "return" THEN YAMLInit(self, f.value)
        ELSE LET r == YAMLInit(self, "")
             IN  IF r.raised # "none" THEN r
                 ELSE IF ~ignore_file_reading_error THEN Failed(f.exc)
                 ELSE r

\* TOMLConfigProvider.__init__
TOMLInit(self, toml_str, ignore_decode_error) ==
    LET r == TomlLoads(toml_str)
    IN  IF r.kind = "return" THEN Done(DictInit(self, r.value))
        ELSE IF ~ignore_decode_error THEN Failed(r.exc)
        ELSE Done(self)

\* TOMLFileProvider.__init__
TOMLFileInit(self, file_name, ignore_decode_error, ignore_file_reading_error) ==
    LET s1 == [self EXCEPT !.data = PyDict(<<>>)]
        f == OpenAndRead(file_name)
    IN  IF f.kind = "return" THEN TOMLInit(s1, f.value, ignore_decode_error)
        ELSE IF ~ignore_file_reading_error THEN Failed(f.exc)
        ELSE Done(s1)

Flags ==
    { "ignore_decode_error", "ignore_file_reading_error",
      "ignore_import_errors" }

\* the keyword parameters of each constructor's signature
Accepts(cls) ==
    CASE cls = "JSONConfigProvider" -> {"ignore_decode_error"}
      [] cls = "JSONFileConfigProvider" ->
            {"ignore_decode_error", "ignore_file_reading_error"}
      [] cls = "YAMLConfigProvider" -> {}
      [] cls = "YAMLFileConfigProvider" -> {"ignore_file_reading_error"}
      [] cls = "TOMLConfigProvider" -> {"ignore_decode_error"}
      [] cls = "TOMLFileProvider" ->
            {"ignore_decode_error", "ignore_file_reading_error"}
      [] cls = "PyModuleConfigProvider" -> {"ignore_import_errors"}

\* cls(arg, **{flag: True for flag in kw}): a keyword the signature does not
\* have raises TypeError before __init__ runs
Construct(cls, arg, kw) ==
    LET self == NewObject(cls)
        ide == "ignore_decode_error" \in kw
        ife == "ignore_file_reading_error" \in kw
        iie == "ignore_import_errors" \in kw
    IN  IF ~(kw \subseteq Accepts(cls)) THEN Failed("TypeError")
        ELSE CASE cls = "JSONConfigProvider" -> JSONInit(self, arg, ide)
               [] cls = "JSONFileConfigProvider" ->
                     JSONFileInit(self, arg, ide, ife)
               [] cls = "YAMLConfigProvider" -> YAMLInit(self, arg)
               [] cls = "YAMLFileConfigProvider" -> YAMLFileInit(self, arg, ife)
               [] cls = "TOMLConfigProvider" -> TOMLInit(self, arg, ide)
               [] cls = "TOMLFileProvider" -> TOMLFileInit(self, arg, ide, ife)
               [] cls = "PyModuleConfigProvider" -> PyModuleInit(self, arg, iie)

InitLoad ==
    /\ files \in [{"local_config"} -> Texts]
    /\ environ = <<>>
    /\ at_construction = <<>>
    /\ IdleProvider
    /\ IdleResolve

\* provider = cls(arg, **kw), replacing the provider the caller held
New(cls, arg, kw) ==
    LET r == Construct(cls, arg, kw)
    IN  /\ provider' = r.self
        /\ ctor' = [op |-> cls, arg |-> arg, kw |-> kw, raised |-> r.raised]
        /\ cv' = Nil
        /\ last' = NoCall
        /\ UNCHANGED <<rvars, svars>>

NewJSONConfigProvider ==
    \E text \in Texts, kw \in SUBSET Flags :
        New("JSONConfigProvider", text, kw)

NewJSONFileConfigProvider ==
    \E name \in FileNames, kw \in SUBSET Flags :
        New("JSONFileConfigProvider", name, kw)

NewYAMLConfigProvider ==
    \E text \in Texts, kw \in SUBSET Flags :
        New("YAMLConfigProvider", text, kw)

NewYAMLFileConfigProvider ==
    \E name \in FileNames, kw \in SUBSET Flags :
        New("YAMLFileConfigProvider", name, kw)

NewTOMLConfigProvider ==
    \E text \in Texts, kw \in SUBSET Flags :
        New("TOMLConfigProvider", text, kw)

NewTOMLFileProvider ==
    \E name \in FileNames, kw \in SUBSET Flags :
        New("TOMLFileProvider", name, kw)

NewPyModuleConfigProvider ==
    \E name \in ModuleNames, kw \in SUBSET Flags :
        New("PyModuleConfigProvider", name, kw)

\* cv = provider.get(*keys)
LoadedProviderGet == \E keys \in Paths : Get(keys)

NextLoad ==
    \/ NewJSONConfigProvider
    \/ NewJSONFileConfigProvider
    \/ NewYAMLConfigProvider
    \/ NewYAMLFileConfigProvider
    \/ NewTOMLConfigProvider
    \/ NewTOMLFileProvider
    \/ NewPyModuleConfigProvider
    \/ LoadedProviderGet

SpecLoad == InitLoad /\ [][NextLoad]_vars

-----------------------------------------------------------------------------
(* Claims about the constructors *)

StringProviders ==
    { "JSONConfigProvider", "YAMLConfigProvider", "TOMLConfigProvider" }

FileProviders ==
    { "JSONFileConfigProvider", "YAMLFileConfigProvider", "TOMLFileProvider" }

\* the parser of a provider class
Parse(cls, text) ==
    CASE cls \in {"JSONConfigProvider", "JSONFileConfigProvider"} ->
            JsonLoads(text)
      [] cls \in {"YAMLConfigProvider", "YAMLFileConfigProvider"} ->
            YamlFullLoad(text)
      [] cls \in {"TOMLConfigProvider", "TOMLFileProvider"} ->
            TomlLoads(text)

\* the string provider a file provider corresponds to
StringProviderOf(cls) ==
    CASE cls = "JSONFileConfigProvider" -> "JSONConfigProvider"
      [] cls = "YAMLFileConfigProvider" -> "YAMLConfigProvider"
      [] cls = "TOMLFileProvider" -> "TOMLConfigProvider"

\* the construction failed in the way its ignore flag is about, and that
\* flag (and no other) was set; YAMLConfigProvider, whose signature has no
\* flag, is left out
IgnoredFailure ==
    \/ /\ ctor.op \in StringProviders
       /\ Parse(ctor.op, ctor.arg).kind = "raise"
       /\ ctor.kw = {"ignore_decode_error"}
       /\ ctor.kw \subseteq Accepts(ctor.op)
    \/ /\ ctor.op \in FileProviders
       /\ ctor.arg \notin DOMAIN files
       /\ ctor.kw = {"ignore_file_reading_error"}
    \/ /\ ctor.op = "PyModuleConfigProvider"
       /\ ImportModule(ctor.arg).kind = "raise"
       /\ ctor.kw = {"ignore_import_errors"}

\* C4: a provider whose construction fails with the corresponding ignore
\* flag set is constructed without raising and has an empty backing
\* container: get() with the empty path returns exist = True with an empty
\* mapping, and get with any non-empty path returns exist = False.
C4_IgnoredFailureLeavesEmpty ==
    IgnoredFailure =>
        /\ ctor.raised = "none"
        /\ provider # Nil
        /\ CallGet(provider, <<>>) = Return(ConfigValue(PyDict(<<>>), TRUE))
        /\ \A keys \in Paths \ {<<>>} :
              CallGet(provider, keys) = Return(ConfigValue(PyNone, FALSE))

\* C5: a file provider constructed over an existing file with well-formed
\* contents constructs without raising and returns, for every path, the
\* same ConfigValue as the corresponding string provider constructed from
\* the file's text.
C5_FileAsString ==
    (/\ ctor.op \in FileProviders
     /\ ctor.kw \subseteq Accepts(ctor.op)
     /\ ctor.arg \in DOMAIN files
     /\ Parse(ctor.op, files[ctor.arg]).kind = "return")
    => LET cls == StringProviderOf(ctor.op)
           str == Construct(cls, files[ctor.arg], ctor.kw \cap Accepts(cls))
       IN  /\ ctor.raised = "none"
           /\ provider # Nil
           /\ str.raised = "none"
           /\ \A keys \in Paths :
                 CallGet(provider, keys) = CallGet(str.self, keys)

=============================================================================
